---- MODULE Spec2Model ----
(***************************************************************************)
(* Model of evaluation_scripts/evaluate_odin.py: the ODIN scorer (ODIN),   *)
(* the metric aggregator (odin_results) and the FPR-at-95%-TPR metric      *)
(* (fpr95).                                                                *)
(*                                                                         *)
(* Numbers.  Probabilities are multiples of 1/Scale, kept as integers      *)
(* 0..Scale.  Every derived float (an accuracy, a percentile, an AUC, a    *)
(* rate) is an exact rational <<numerator, denominator>>; NaN is <<0, 0>>. *)
(* Classes are numbered from 1 (numpy numbers them from 0).                *)
(*                                                                         *)
(* The network.  model(x), the input gradient, the perturbation and the    *)
(* softmax of lines 25-43 produce, for each example, one row of class      *)
(* probabilities that depends on the (opaque) trained network only.  The   *)
(* model draws that row from ProbRows.  Rows with NaN are not modelled.    *)
(***************************************************************************)
EXTENDS Integers, Sequences, FiniteSets, TLC

\* ------------------------------------------------------------------ bounds
MaxDs == 2        \* examples of the in-distribution dataset
MaxOod == 1       \* examples of the out-of-distribution dataset
MaxBatch == 2     \* examples per batch
Scale == 2        \* probability grid: multiples of 1/Scale
MaxScore == 3     \* fpr95 harness: scores are 0..MaxScore
MaxLen == 4       \* fpr95 harness: length of the label and score vectors
MaxLow == 5       \* percentile harness: number of low per-row maxima
MaxHigh == 95     \* percentile harness: number of high per-row maxima

Classes == {1, 2}
Sentinel == -123456789
Percent == 5

NaN == <<0, 0>>
K_CE == "classification error"
K_THR == "threshold_ood"
K_OODERR == "OOD error"
K_OODAUC == "OOD AUC"
K_ANOM == "AUC anomaly score and misclassification"
K_FPR == "FPR at 95% TPR"

VARIABLES
  pc,                \* position in odin_results, or in a harness
  raised,            \* the exception that escaped, "none" if none
  ds, ood,           \* the two loaded datasets: sequences of batches
  kind,              \* what the iterable returned by ds.load() is
  passes,            \* iterations started so far on the ds iterable
  i,                 \* ODIN: batches consumed by the running loop
  ots,               \* ODIN: list of per-batch outputs
  pred_ds, pred_ood, \* ODIN's results
  y_true,            \* labels gathered by the second pass over ds
  pred, ood_labels,  \* combined matrix and domain labels
  threshold,
  result_collection,
  returned,          \* odin_results' return value, NoMapping before
  arg, ret           \* harness: arguments and result of a pure function

vars == <<pc, raised, ds, ood, kind, passes, i, ots, pred_ds, pred_ood, y_true,
          pred, ood_labels, threshold, result_collection, returned, arg, ret>>

NoMapping == [x \in {"none"} |-> NaN]
EmptyMapping == [x \in {} |-> NaN]

\* ------------------------------------------------------------------ helpers
RECURSIVE Flatten(_)
Flatten(ss) == IF ss = <<>> THEN <<>> ELSE Head(ss) \o Flatten(Tail(ss))

RECURSIVE Repeat(_, _)
Repeat(v, n) == IF n = 0 THEN <<>> ELSE <<v>> \o Repeat(v, n - 1)

SetMax(S) == CHOOSE v \in S : \A w \in S : v >= w
SetMin(S) == CHOOSE v \in S : \A w \in S : v <= w

Range(s) == {s[k] : k \in DOMAIN s}

\* the values of S by decreasing value
RECURSIVE DescSeq(_)
DescSeq(S) == IF S = {} THEN <<>> ELSE <<SetMax(S)>> \o DescSeq(S \ {SetMax(S)})

Count(s, v) == Cardinality({k \in DOMAIN s : s[k] = v})

\* np.sort: s by increasing value
RECURSIVE SortAscVals(_, _)
SortAscVals(s, S) ==
  IF S = {} THEN <<>>
  ELSE Repeat(SetMin(S), Count(s, SetMin(S))) \o SortAscVals(s, S \ {SetMin(S)})
SortAsc(s) == SortAscVals(s, Range(s))

SubSeqKeep(s, keep) ==
  LET RECURSIVE go(_)
      go(k) == IF k > Len(s) THEN <<>>
               ELSE (IF k \in keep THEN <<s[k]>> ELSE <<>>) \o go(k + 1)
  IN go(1)

\* ------------------------------------------------------------------ datasets
Example(src, n, y) == [src |-> src, ix |-> n, y |-> y]

\* every way to cut the example sequence exs into non-empty batches
RECURSIVE Batchings(_)
Batchings(exs) ==
  IF exs = <<>> THEN {<<>>}
  ELSE UNION { { <<SubSeq(exs, 1, k)>> \o rest :
                   rest \in Batchings(SubSeq(exs, k + 1, Len(exs))) } :
               k \in 1..(IF Len(exs) < MaxBatch THEN Len(exs) ELSE MaxBatch) }

Datasets(src, max) ==
  UNION { UNION { Batchings([k \in 1..n |-> Example(src, k, ys[k])]) :
                    ys \in [1..n -> (IF src = "ds" THEN Classes ELSE {1})] } :
          n \in 0..max }

\* what the n-th iteration of an iterable over the batches bs yields
Iterate(bs, knd, n) == IF knd = "oneshot" /\ n > 1 THEN <<>> ELSE bs

ProbRows == { r \in [Classes -> 0..Scale] : r[1] + r[2] = Scale }

\* ------------------------------------------------------------------ numpy / sklearn
\* row.max() and row.argmax() (the first index of the maximum)
RowMax(r) == SetMax({r[c] : c \in Classes})
ArgMax(r) == SetMin({c \in Classes : r[c] = RowMax(r)})

Maxima(rows) == [k \in DOMAIN rows |-> RowMax(rows[k].prob)]
ArgMaxes(rows) == [k \in DOMAIN rows |-> ArgMax(rows[k].prob)]

\* 1. - metrics.accuracy_score(a, b), for vectors of one length
ErrorRate(a, b) == <<Cardinality({k \in DOMAIN a : a[k] # b[k]}), Len(a)>>

\* faulty variant: interpolation 'lower'
PercentileLower(a, q) ==
  LET s == SortAsc(a)
      lo == (((Len(a) - 1) * q) \div 100) + 1
  IN <<100 * s[lo], 100>>

\* np.percentile(a, q), interpolation 'linear' (the default): the value at the
\* fractional rank (n - 1) * q / 100 of the sorted data, in hundredths.
Percentile(a, q) ==
  LET s == SortAsc(a)
      pos == (Len(a) - 1) * q
      lo == (pos \div 100) + 1
      fr == pos % 100
      hi == IF lo < Len(a) THEN lo + 1 ELSE lo
  IN <<100 * s[lo] + fr * (s[hi] - s[lo]), 100>>

\* metrics.roc_curve(y, s), drop_intermediate=True (the default): the cumulative
\* counts of positives (tps) and negatives (fps) at each distinct score, by
\* decreasing score; points collinear with both neighbours dropped; then the
\* origin prepended.  fpr = fps / fps[-1] and tpr = tps / tps[-1].
RocCurve(y, s) ==
  LET th == DescSeq(Range(s))
      tps == [k \in DOMAIN th |-> Cardinality({j \in DOMAIN s : s[j] >= th[k] /\ y[j] = 1})]
      fps == [k \in DOMAIN th |-> Cardinality({j \in DOMAIN s : s[j] >= th[k] /\ y[j] # 1})]
      n == Len(th)
      keep == IF n > 2
              THEN {1, n} \cup {k \in 2..(n - 1) :
                        \/ fps[k + 1] - 2 * fps[k] + fps[k - 1] # 0
                        \/ tps[k + 1] - 2 * tps[k] + tps[k - 1] # 0}
              ELSE 1..n
  IN [fps |-> <<0>> \o SubSeqKeep(fps, keep), tps |-> <<0>> \o SubSeqKeep(tps, keep)]

\* metrics.auc(fpr, tpr): the trapezoidal rule, as a rational over 2 * P * N
RECURSIVE Trapezoids(_, _, _)
Trapezoids(fps, tps, k) ==
  IF k >= Len(fps) THEN 0
  ELSE (fps[k + 1] - fps[k]) * (tps[k + 1] + tps[k]) + Trapezoids(fps, tps, k + 1)

\* metrics.roc_auc_score(y, s): "ValueError" (as <<"ValueError">>) when y holds
\* one class only
OneClass(y) == Cardinality(Range(y)) # 2
RocAucScore(y, s) ==
  LET roc == RocCurve(y, s)
      P == roc.tps[Len(roc.tps)]
      N == roc.fps[Len(roc.fps)]
  IN IF OneClass(y) THEN <<"ValueError">>
     ELSE <<Trapezoids(roc.fps, roc.tps, 1), 2 * P * N>>

\* ------------------------------------------------------------------ fpr95
\* tpr >= 0.95 at point k of the curve (tpr is NaN, and the test false, when
\* there is no positive)
Reaches(roc, k) ==
  LET P == roc.tps[Len(roc.tps)] IN P > 0 /\ 100 * roc.tps[k] >= 95 * P

\* np.argwhere(tpr >= 0.95).ravel()
ArgWhere(roc) == {k \in DOMAIN roc.tps : Reaches(roc, k)}

\* faulty variant: the last index
LastOf(S) == SetMax(S)

\* argwhere(...)[0]: the first index
FirstOf(S) == SetMin(S)

\* faulty variant: a fallback of 1.0 when no point reaches 0.95
fpr95Fallback(y, s) ==
  LET roc == RocCurve(y, s)
      N == roc.fps[Len(roc.fps)]
      hit == ArgWhere(roc)
  IN IF hit = {} THEN <<1, 1>>
     ELSE IF N = 0 THEN NaN ELSE <<roc.fps[SetMin(hit)], N>>

\* fpr95(y_true, y_pred): <<"IndexError">> when argwhere(...) is empty, else
\* fpr[ix] (NaN when there is no negative)
fpr95(y, s) ==
  LET roc == RocCurve(y, s)
      N == roc.fps[Len(roc.fps)]
      hit == ArgWhere(roc)
  IN IF hit = {} THEN <<"IndexError">>
     ELSE IF N = 0 THEN NaN ELSE <<roc.fps[FirstOf(hit)], N>>

\* ------------------------------------------------------------------ ODIN
\* the batches the running loop of ODIN iterates: ds (the first iteration of
\* its iterable) or ood
Batches == IF pc = "odin_ds" THEN Iterate(ds, kind, passes + 1) ELSE ood

\* faulty variant: the batch output is put in front
OtsPrepend(list, outputs) == <<outputs>> \o list

\* ots.append(outputs)
OtsAppend(list, outputs) == Append(list, outputs)

\* np.vstack(ots)
VStack(list) == Flatten(list)

\* One turn of the loop of ODIN (lines 24-44): the next batch is scored, one
\* probability row per example, and the rows are appended to ots.
OdinBatch ==
  /\ pc \in {"odin_ds", "odin_ood"}
  /\ i < Len(Batches)
  /\ LET x == Batches[i + 1]
     IN \E rows \in [DOMAIN x -> ProbRows] :
          ots' = OtsAppend(ots, [j \in DOMAIN x |-> [ex |-> x[j], prob |-> rows[j]]])
  /\ i' = i + 1
  /\ UNCHANGED <<pc, raised, ds, ood, kind, passes, pred_ds, pred_ood, y_true, pred,
                 ood_labels, threshold, result_collection, returned, arg, ret>>

\* The loop of ODIN is over (line 46): np.vstack(ots), which raises ValueError
\* on an empty list; odin_results goes on with the next call (lines 71-72).
OdinReturn ==
  /\ pc \in {"odin_ds", "odin_ood"}
  /\ i = Len(Batches)
  /\ IF ots = <<>>
     THEN /\ pc' = "failed"
          /\ raised' = "ValueError"
          /\ UNCHANGED <<pred_ds, pred_ood>>
     ELSE /\ pc' = IF pc = "odin_ds" THEN "odin_ood" ELSE "y_true"
          /\ pred_ds' = IF pc = "odin_ds" THEN VStack(ots) ELSE pred_ds
          /\ pred_ood' = IF pc = "odin_ood" THEN VStack(ots) ELSE pred_ood
          /\ UNCHANGED raised
  /\ passes' = IF pc = "odin_ds" THEN passes + 1 ELSE passes
  /\ i' = 0
  /\ ots' = <<>>
  /\ UNCHANGED <<ds, ood, kind, y_true, pred, ood_labels, threshold,
                 result_collection, returned, arg, ret>>

\* ------------------------------------------------------------------ odin_results
\* faulty variant: the threshold is not stored
StoreSkipsThreshold(rc, key, value) == IF key = K_THR THEN rc ELSE (key :> value) @@ rc

Store(rc, key, value) == (key :> value) @@ rc

\* faulty variant: the labels in the order in-distribution, OOD
DomainLabelsSwapped(nOod, nDs) == Repeat(1, nDs) \o Repeat(0, nOod)

\* [0] * len(pred_ood) + [1] * len(pred_ds)
DomainLabels(nOod, nDs) == Repeat(0, nOod) \o Repeat(1, nDs)

\* np.vstack((pred_ood, pred_ds))
StackPred(a, b) == a \o b

\* faulty variant: .all(1) for .any(1)
AllPredEvery(row, thr) == IF \A c \in Classes : row[c] * thr[2] > thr[1] THEN 1 ELSE 0

\* faulty variant: >= for >
AllPredGe(row, thr) == IF \E c \in Classes : row[c] * thr[2] >= thr[1] THEN 1 ELSE 0

\* (pred > threshold).any(1).astype(int), for one row
AllPred(row, thr) == IF \E c \in Classes : row[c] * thr[2] > thr[1] THEN 1 ELSE 0

AllPreds(rows, thr) == [k \in DOMAIN rows |-> AllPred(rows[k].prob, thr)]

\* y_true != pred_ds.argmax(1), as 0/1
Erroneous(yt, rows) ==
  [k \in DOMAIN rows |-> IF yt[k].y # ArgMax(rows[k].prob) THEN 1 ELSE 0]

\* p = pred.max(1)
p == Maxima(pred)

\* faulty variant: no try/except around roc_auc_score
TryAucNoCatch(e, score) == RocAucScore(e, score)

\* lines 100-103: the AUC, or the sentinel when roc_auc_score raises ValueError
TryAuc(e, score) ==
  IF RocAucScore(e, score) = <<"ValueError">> THEN <<Sentinel, 1>>
  ELSE RocAucScore(e, score)

\* line 74: a second iteration of the ds iterable; np.hstack raises ValueError
\* on an empty list
YTrue ==
  /\ pc = "y_true"
  /\ LET ys == Iterate(ds, kind, passes + 1)
     IN IF ys = <<>>
        THEN pc' = "failed" /\ raised' = "ValueError" /\ UNCHANGED y_true
        ELSE pc' = "class_error" /\ y_true' = Flatten(ys) /\ UNCHANGED raised
  /\ passes' = passes + 1
  /\ UNCHANGED <<ds, ood, kind, i, ots, pred_ds, pred_ood, pred, ood_labels,
                 threshold, result_collection, returned, arg, ret>>

\* lines 75-77; accuracy_score raises ValueError on vectors of different length
ClassError ==
  /\ pc = "class_error"
  /\ IF Len(y_true) # Len(pred_ds)
     THEN pc' = "failed" /\ raised' = "ValueError" /\ UNCHANGED result_collection
     ELSE /\ pc' = "ood_error"
          /\ result_collection' =
               Store(result_collection, K_CE,
                     ErrorRate([k \in DOMAIN y_true |-> y_true[k].y], ArgMaxes(pred_ds)))
          /\ UNCHANGED raised
  /\ UNCHANGED <<ds, ood, kind, passes, i, ots, pred_ds, pred_ood, y_true, pred,
                 ood_labels, threshold, returned, arg, ret>>

\* lines 79-89
OodError ==
  /\ pc = "ood_error"
  /\ pred' = StackPred(pred_ood, pred_ds)
  /\ ood_labels' = DomainLabels(Len(pred_ood), Len(pred_ds))
  /\ threshold' = Percentile(Maxima(pred_ds), Percent)
  /\ result_collection' =
       Store(Store(result_collection, K_THR, threshold'),
             K_OODERR, ErrorRate(ood_labels', AllPreds(pred', threshold')))
  /\ pc' = "ood_auc"
  /\ UNCHANGED <<raised, ds, ood, kind, passes, i, ots, pred_ds, pred_ood, y_true,
                 returned, arg, ret>>

\* lines 91-94; roc_auc_score raises ValueError on one-class labels
OodAuc ==
  /\ pc = "ood_auc"
  /\ LET a == RocAucScore(ood_labels, p)
     IN IF a = <<"ValueError">>
        THEN pc' = "failed" /\ raised' = "ValueError" /\ UNCHANGED result_collection
        ELSE /\ pc' = "anomaly_auc"
             /\ result_collection' = Store(result_collection, K_OODAUC, a)
             /\ UNCHANGED raised
  /\ UNCHANGED <<ds, ood, kind, passes, i, ots, pred_ds, pred_ood, y_true, pred,
                 ood_labels, threshold, returned, arg, ret>>

\* lines 96-104
AnomalyAuc ==
  /\ pc = "anomaly_auc"
  /\ result_collection' =
       Store(result_collection, K_ANOM,
             TryAuc(Erroneous(y_true, pred_ds), Maxima(pred_ds)))
  /\ pc' = "fpr95"
  /\ UNCHANGED <<raised, ds, ood, kind, passes, i, ots, pred_ds, pred_ood, y_true,
                 pred, ood_labels, threshold, returned, arg, ret>>

\* lines 106-108; an IndexError of fpr95 is not caught
Fpr95Step ==
  /\ pc = "fpr95"
  /\ LET fpr == fpr95(ood_labels, p)
     IN IF fpr = <<"IndexError">>
        THEN pc' = "failed" /\ raised' = "IndexError" /\ UNCHANGED result_collection
        ELSE /\ pc' = "return"
             /\ result_collection' = Store(result_collection, K_FPR, fpr)
             /\ UNCHANGED raised
  /\ UNCHANGED <<ds, ood, kind, passes, i, ots, pred_ds, pred_ood, y_true, pred,
                 ood_labels, threshold, returned, arg, ret>>

\* line 110
Return ==
  /\ pc = "return"
  /\ returned' = result_collection
  /\ pc' = "returned"
  /\ UNCHANGED <<raised, ds, ood, kind, passes, i, ots, pred_ds, pred_ood, y_true,
                 pred, ood_labels, threshold, result_collection, arg, ret>>

\* odin_results after lines 67-69: an empty result_collection, both datasets loaded
Init ==
  /\ pc = "odin_ds"
  /\ raised = "none"
  /\ ds \in Datasets("ds", MaxDs)
  /\ ood \in Datasets("ood", MaxOod)
  /\ kind \in {"restartable", "oneshot"}
  /\ passes = 0
  /\ i = 0
  /\ ots = <<>>
  /\ pred_ds = <<>>
  /\ pred_ood = <<>>
  /\ y_true = <<>>
  /\ pred = <<>>
  /\ ood_labels = <<>>
  /\ threshold = NaN
  /\ result_collection = EmptyMapping
  /\ returned = NoMapping
  /\ arg = <<>>
  /\ ret = <<>>

Next ==
  \/ OdinBatch
  \/ OdinReturn
  \/ YTrue
  \/ ClassError
  \/ OodError
  \/ OodAuc
  \/ AnomalyAuc
  \/ Fpr95Step
  \/ Return

Spec == Init /\ [][Next]_vars

\* ------------------------------------------------------------------ fpr95 alone
\* fpr95 applied to any label vector and any score vector of one length
InitFpr95 ==
  /\ pc = "call_fpr95"
  /\ \E n \in 1..MaxLen :
       \E y \in [1..n -> {0, 1}], s \in [1..n -> 0..MaxScore] : arg = <<y, s>>
  /\ raised = "none" /\ ds = <<>> /\ ood = <<>> /\ kind = "restartable"
  /\ passes = 0 /\ i = 0 /\ ots = <<>> /\ pred_ds = <<>> /\ pred_ood = <<>>
  /\ y_true = <<>> /\ pred = <<>> /\ ood_labels = <<>> /\ threshold = NaN
  /\ result_collection = EmptyMapping /\ returned = NoMapping /\ ret = <<>>

CallFpr95 ==
  /\ pc = "call_fpr95"
  /\ ret' = fpr95(arg[1], arg[2])
  /\ pc' = "done"
  /\ UNCHANGED <<raised, ds, ood, kind, passes, i, ots, pred_ds, pred_ood, y_true,
                 pred, ood_labels, threshold, result_collection, returned, arg>>

SpecFpr95 == InitFpr95 /\ [][CallFpr95]_vars

\* fpr95 alone, and fpr95 as odin_results calls it
SpecFatal == (Init \/ InitFpr95) /\ [][Next \/ CallFpr95]_vars

\* ------------------------------------------------------------------ np.percentile alone
\* np.percentile(a, 5) on per-row maxima in tenths: some high values followed
\* by some low ones
InitPercentile ==
  /\ pc = "call_percentile"
  /\ \E nh \in 0..MaxHigh, nl \in 0..MaxLow, h \in {8, 9}, l \in {1, 2} :
       /\ nh + nl >= 1
       /\ arg = Repeat(h, nh) \o Repeat(l, nl)
  /\ raised = "none" /\ ds = <<>> /\ ood = <<>> /\ kind = "restartable"
  /\ passes = 0 /\ i = 0 /\ ots = <<>> /\ pred_ds = <<>> /\ pred_ood = <<>>
  /\ y_true = <<>> /\ pred = <<>> /\ ood_labels = <<>> /\ threshold = NaN
  /\ result_collection = EmptyMapping /\ returned = NoMapping /\ ret = <<>>

CallPercentile ==
  /\ pc = "call_percentile"
  /\ ret' = Percentile(arg, Percent)
  /\ pc' = "done"
  /\ UNCHANGED <<raised, ds, ood, kind, passes, i, ots, pred_ds, pred_ood, y_true,
                 pred, ood_labels, threshold, result_collection, returned, arg>>

\* np.percentile alone, and np.percentile as odin_results calls it
SpecThreshold == (Init \/ InitPercentile) /\ [][Next \/ CallPercentile]_vars

\* ================================================================== claims
FiveKeys == {K_CE, K_OODERR, K_OODAUC, K_ANOM, K_FPR}
Exs(rows) == [k \in DOMAIN rows |-> rows[k].ex]

\* the in-distribution predictions are all correct or all incorrect
Degenerate ==
  /\ pred_ds # <<>>
  /\ Len(y_true) = Len(pred_ds)
  /\ \/ \A k \in DOMAIN pred_ds : y_true[k].y = ArgMax(pred_ds[k].prob)
     \/ \A k \in DOMAIN pred_ds : y_true[k].y # ArgMax(pred_ds[k].prob)

\* C1 as stated: whenever odin_results returns normally, the returned mapping
\* holds exactly the five keys 'classification error', 'OOD error', 'OOD AUC',
\* 'AUC anomaly score and misclassification' and 'FPR at 95% TPR'.
C1_FiveKeys == pc = "returned" => DOMAIN returned = FiveKeys

\* C1 amended: whenever odin_results returns normally, the returned mapping
\* holds exactly six keys: the five named ones and 'threshold_ood'; nothing is
\* returned before.
C1_SixKeys ==
  /\ pc = "returned" => DOMAIN returned = FiveKeys \cup {K_THR}
  /\ pc # "returned" => returned = NoMapping

C1_Witness == pc = "returned" /\ K_THR \in DOMAIN returned

\* C2: when the in-distribution predictions are all correct or all incorrect,
\* the anomaly step stores the sentinel -123456789 and raises nothing, the
\* entries stored before it keep their values, and the evaluation goes on to
\* store 'FPR at 95% TPR' and to return the mapping.
C2_Sentinel ==
  /\ [](pc \in {"fpr95", "return", "returned"} /\ Degenerate
          => /\ result_collection[K_ANOM] = <<Sentinel, 1>>
             /\ raised = "none"
             /\ fpr95(ood_labels, p) # <<"IndexError">>)
  /\ [](pc = "returned" /\ Degenerate
          => returned[K_ANOM] = <<Sentinel, 1>> /\ K_FPR \in DOMAIN returned)
  /\ [][pc = "anomaly_auc"
          => /\ pc' = "fpr95"
             /\ \A k \in DOMAIN result_collection :
                  /\ k \in DOMAIN result_collection'
                  /\ result_collection'[k] = result_collection[k]]_vars
  /\ [][pc = "fpr95" /\ Degenerate => pc' = "return"]_vars
  /\ [][pc = "return" => pc' = "returned" /\ returned' = result_collection]_vars

C2_Witness ==
  /\ pc = "returned"
  /\ Degenerate
  /\ Len(pred_ds) = 2
  /\ returned[K_ANOM] = <<Sentinel, 1>>

\* C3: the matrix ODIN returns has one row per example of the batches consumed,
\* in iteration order: batch by batch, and in the order inside each batch.  It
\* holds of the rows gathered so far at every turn of the loop as well.
C3_RowOrder ==
  /\ pc \in {"odin_ds", "odin_ood"} => Exs(VStack(ots)) = Flatten(SubSeq(Batches, 1, i))
  /\ pred_ds # <<>> => Exs(pred_ds) = Flatten(ds) /\ Len(pred_ds) = Len(Flatten(ds))
  /\ pred_ood # <<>> => Exs(pred_ood) = Flatten(ood) /\ Len(pred_ood) = Len(Flatten(ood))

C3_Witness ==
  /\ pc = "odin_ood"
  /\ Len(ds) = 2
  /\ Len(pred_ds) = 2
  /\ pred_ds[1].ex.ix = 1 /\ pred_ds[2].ex.ix = 2

\* C4: when some ROC point has true-positive-rate >= 0.95, fpr95 returns the
\* false-positive-rate of the first such point of the curve roc_curve produced.
C4_FirstPoint ==
  pc = "done" =>
    LET roc == RocCurve(arg[1], arg[2])
        pos == roc.tps[Len(roc.tps)]
        neg == roc.fps[Len(roc.fps)]
        ok(k) == pos > 0 /\ 100 * roc.tps[k] >= 95 * pos
    IN (\E k \in DOMAIN roc.tps : ok(k)) =>
         \E k \in DOMAIN roc.tps :
           /\ ok(k)
           /\ \A j \in 1..(k - 1) : ~ok(j)
           /\ ret = IF neg = 0 THEN NaN ELSE <<roc.fps[k], neg>>

\* a point reaches 0.95 before the last point of the curve does
C4_Witness ==
  /\ pc = "done"
  /\ ret # <<"IndexError">>
  /\ ret # NaN
  /\ ret[1] < ret[2]
  /\ ret[1] > 0

\* C5: when no ROC point reaches a true-positive-rate of 0.95, fpr95 fails with
\* an IndexError and yields no value; in odin_results an exception is fatal: no
\* mapping is returned, and a mapping is returned only when fpr95 yielded a
\* value, which is then stored.
C5_Fatal ==
  /\ pc = "done" =>
       LET roc == RocCurve(arg[1], arg[2])
           pos == roc.tps[Len(roc.tps)]
       IN (\A k \in DOMAIN roc.tps : pos = 0 \/ 100 * roc.tps[k] < 95 * pos)
            => ret = <<"IndexError">>
  /\ raised # "none" => pc = "failed" /\ returned = NoMapping
  /\ pc = "failed" => raised # "none"
  /\ returned # NoMapping =>
       /\ fpr95(ood_labels, p) # <<"IndexError">>
       /\ K_FPR \in DOMAIN returned
       /\ returned[K_FPR] = fpr95(ood_labels, p)

C5_Witness == pc = "done" /\ ret = <<"IndexError">> /\ Len(arg[1]) = 2

\* the per-row maxima of the example, in tenths: 95 values 0.9, 5 values 0.1
Example95 == Repeat(9, 95) \o Repeat(1, 5)

\* thr is between the order statistics of ranks floor and ceil of
\* (n - 1) * 5 / 100 (ranks from 0): at most floor + 1 values lie below it and
\* at least floor + 1 values do not exceed it
FifthPercentile(a, thr) ==
  LET floor == ((Len(a) - 1) * 5) \div 100
  IN /\ thr[2] > 0
     /\ Cardinality({k \in DOMAIN a : a[k] * thr[2] < thr[1]}) <= floor + 1
     /\ Cardinality({k \in DOMAIN a : a[k] * thr[2] <= thr[1]}) >= floor + 1
     /\ (((Len(a) - 1) * 5) % 100 = 0
           => \E k \in DOMAIN a : a[k] * thr[2] = thr[1])

C7_Alignment ==
  pred # <<>> =>
    /\ pred = pred_ood \o pred_ds
    /\ Len(ood_labels) = Len(pred)
    /\ \A k \in DOMAIN pred :
         /\ ood_labels[k] = 0 <=> pred[k].ex.src = "ood"
         /\ ood_labels[k] = 1 <=> pred[k].ex.src = "ds"
    /\ result_collection[K_OODERR] = ErrorRate(ood_labels, AllPreds(pred, threshold))
    /\ K_OODAUC \in DOMAIN result_collection
         => result_collection[K_OODAUC] = RocAucScore(ood_labels, p)
    /\ K_FPR \in DOMAIN result_collection
         => result_collection[K_FPR] = fpr95(ood_labels, p)

C7_Witness ==
  /\ pc = "returned"
  /\ Len(pred_ood) = 1
  /\ Len(pred_ds) = 2
  /\ ood_labels = <<0, 1, 1>>

\* C8: once the label pass of line 74 is over, y_true has one label per row of
\* pred_ds, the k-th label being that of the example of the k-th row, for
\* every finite in-distribution dataset.
C8_LabelsAligned ==
  pc \notin {"odin_ds", "odin_ood", "y_true"} /\ pred_ood # <<>> =>
    /\ Len(y_true) = Len(pred_ds)
    /\ \A k \in DOMAIN pred_ds : y_true[k] = pred_ds[k].ex

\* C9: 'in-distribution if any class probability exceeds the threshold' and
\* 'in-distribution if the maximum class probability exceeds the threshold'
\* agree on every row, for the threshold computed and for every multiple of
\* 1/(2 * Scale) as threshold, so 'OOD error' is the same under both rules.
MaxRule(row, thr) == IF RowMax(row) * thr[2] > thr[1] THEN 1 ELSE 0

C9_AnyIsMax ==
  pred # <<>> =>
    /\ \A k \in DOMAIN pred :
         /\ AllPred(pred[k].prob, threshold) = MaxRule(pred[k].prob, threshold)
         /\ \A t \in 0..(2 * Scale) :
              AllPred(pred[k].prob, <<t, 2>>) = MaxRule(pred[k].prob, <<t, 2>>)
    /\ result_collection[K_OODERR] =
         ErrorRate(ood_labels, [k \in DOMAIN pred |-> MaxRule(pred[k].prob, threshold)])

\* a row classified in-distribution although one of its probabilities does not
\* exceed the threshold
C9_Witness ==
  /\ pc = "returned"
  /\ \E k \in DOMAIN pred :
       /\ AllPred(pred[k].prob, threshold) = 1
       /\ \E c \in Classes : pred[k].prob[c] * threshold[2] <= threshold[1]

\* C10: whenever 'OOD error' is stored, an in-distribution row of smallest
\* maximum probability is classified out-of-distribution, so 'OOD error' is
\* greater than 0.
C10_ErrorPositive ==
  K_OODERR \in DOMAIN result_collection =>
    /\ result_collection[K_OODERR][1] > 0
    /\ result_collection[K_OODERR][2] > 0
    /\ \E k \in DOMAIN pred :
         /\ ood_labels[k] = 1
         /\ \A j \in DOMAIN pred_ds : RowMax(pred[k].prob) <= RowMax(pred_ds[j].prob)
         /\ AllPred(pred[k].prob, threshold) = 0

\* the OOD row is classified out-of-distribution, and the only error is the
\* in-distribution row at the threshold
C10_Witness ==
  /\ pc = "returned"
  /\ Len(pred_ds) = 2
  /\ returned[K_OODERR] = <<1, 3>>
  /\ AllPred(pred[1].prob, threshold) = 0

====
